---- MODULE Spec2Model ----
(***************************************************************************)
(* Model of the cookie extractor's background service worker               *)
(* (src/background.js): the classification and de-duplication functions    *)
(* of CookieExtractor, and its probe -> extract -> deliver protocol.       *)
(*                                                                         *)
(* JavaScript strings are modelled as sequences of one-character strings,  *)
(* so that template-literal concatenation, split and join are computed     *)
(* and not assumed.  A value that may be undefined is a sequence of        *)
(* length zero (undefined) or one (the value).                             *)
(***************************************************************************)
EXTENDS Integers, Sequences, FiniteSets, TLC

VARIABLES
    \* ---- pure-function harness (SpecPure) ----
    pIn,          \* the cookie list handed to the function under study
    pOp,          \* which function has been applied ("none" before the call)
    pProcessed,   \* result of processCookies(pIn)
    pUnique,      \* result of removeDuplicateCookies(pIn)
    pAgain,       \* result of removeDuplicateCookies(pUnique)
    pSummary,     \* result of generateSummary(processCookies(pIn))
    \* ---- extraction protocol (Spec) ----
    call,         \* per slot: the state of the handleMessage invocation in it
    served,       \* per slot: how many messages it has received
    store,        \* the browser's cookie store
    cookieCache,  \* this.cookieCache of the CookieExtractor
    files,        \* the files the server holds, by filename
    \* ---- extractor tab (SpecTabs) ----
    tabs,         \* how many tabs show the extractor page
    tabTasks,     \* the invocations of openExtractorInTab, in trigger order
    \* ---- popup page (SpecLog, SpecPopup) ----
    logOutput,    \* the child nodes of the #logOutput element
    popup         \* the popup's controls and its running handler

pureVars == <<pIn, pOp, pProcessed, pUnique, pAgain, pSummary>>
protoVars == <<call, served, store, cookieCache>>
tabVars == <<tabs, tabTasks>>
popupVars == <<logOutput, popup>>
uiVars == <<tabs, tabTasks, logOutput, popup>>

vars == <<pIn, pOp, pProcessed, pUnique, pAgain, pSummary, call, served, store,
          cookieCache, files, tabs, tabTasks, logOutput, popup>>

(***************************************************************************)
(* Bounds                                                                  *)
(***************************************************************************)
MaxLen == 3            \* longest cookie list given to removeDuplicateCookies
MaxCalls == 2          \* messages the listener receives
MaxTriggers == 2       \* menu clicks, commands and icon clicks in one run
MaxInFlight == 2       \* extractions one popup is let to have in flight

(***************************************************************************)
(* Strings                                                                 *)
(***************************************************************************)
\* `${a}|${b}|${c}` : template-literal concatenation with the '|' separator
Template3(a, b, c) == a \o <<"|">> \o b \o <<"|">> \o c

(***************************************************************************)
(* Cookie records (chrome.cookies.Cookie)                                  *)
(***************************************************************************)
NoExpiration == <<>>                      \* expirationDate undefined

Cookie(n, v, d, p, sec, ho, ss, sess, exp) ==
    [name |-> n, value |-> v, domain |-> d, path |-> p,
     secure |-> sec, httpOnly |-> ho, sameSite |-> ss,
     session |-> sess, expirationDate |-> exp]

\* JavaScript truthiness of cookie.expirationDate (undefined and 0 are falsy)
Truthy(exp) == exp # <<>> /\ exp[1] # 0

(***************************************************************************)
(* CookieExtractor.categorizeCookie                                        *)
(***************************************************************************)
\* mutant: the single-flag tests come before the combined one
categorizeCookie_SingleFlagFirst(cookie) ==
    IF cookie.httpOnly THEN "httponly"
    ELSE IF cookie.secure THEN "secure"
    ELSE IF cookie.httpOnly /\ cookie.secure THEN "secure-httponly"
    ELSE IF cookie.session THEN "session"
    ELSE "regular"

categorizeCookie(cookie) ==
    IF cookie.httpOnly /\ cookie.secure THEN "secure-httponly"
    ELSE IF cookie.httpOnly THEN "httponly"
    ELSE IF cookie.secure THEN "secure"
    ELSE IF cookie.session THEN "session"
    ELSE "regular"

(***************************************************************************)
(* CookieExtractor.assessSecurityLevel                                     *)
(***************************************************************************)
securityScore(cookie) ==
    LET s1 == IF cookie.secure THEN 2 ELSE 0
        s2 == s1 + (IF cookie.httpOnly THEN 2 ELSE 0)
        s3 == s2 + (IF cookie.sameSite = "Strict" THEN 2 ELSE 0)
        s4 == s3 + (IF cookie.sameSite = "Lax" THEN 1 ELSE 0)
        s5 == s4 + (IF ~cookie.session /\ Truthy(cookie.expirationDate)
                    THEN 1 ELSE 0)
    IN  s5

\* mutant: strict comparisons at the two thresholds
tierOfScore_StrictThresholds(score) ==
    IF score > 6 THEN "high"
    ELSE IF score > 3 THEN "medium"
    ELSE "low"

tierOfScore(score) ==
    IF score >= 6 THEN "high"
    ELSE IF score >= 3 THEN "medium"
    ELSE "low"

assessSecurityLevel(cookie) == tierOfScore(securityScore(cookie))

(***************************************************************************)
(* CookieExtractor.processCookies                                          *)
(***************************************************************************)
processOne(cookie) ==
    [name |-> cookie.name, value |-> cookie.value,
     domain |-> cookie.domain, path |-> cookie.path,
     secure |-> cookie.secure, httpOnly |-> cookie.httpOnly,
     sameSite |-> cookie.sameSite, session |-> cookie.session,
     \* new Date(expirationDate * 1000).toISOString(), else null (<<>>)
     expirationDate |-> IF Truthy(cookie.expirationDate)
                        THEN <<cookie.expirationDate[1] * 1000>> ELSE <<>>,
     cookieType |-> categorizeCookie(cookie),
     securityLevel |-> assessSecurityLevel(cookie),
     size |-> Len(cookie.name \o cookie.value)]

processCookies(cookies) == [i \in 1..Len(cookies) |-> processOne(cookies[i])]

(***************************************************************************)
(* CookieExtractor.removeDuplicateCookies                                  *)
(***************************************************************************)
cookieKey(cookie) == Template3(cookie.name, cookie.domain, cookie.path)

\* mutant: a key is taken out of `seen` again when it causes a drop
removeDuplicateCookies_ForgetOnDrop(cookies) ==
    LET RECURSIVE Walk(_, _)
        Walk(i, seen) ==
            IF i > Len(cookies) THEN <<>>
            ELSE IF cookieKey(cookies[i]) \in seen
                 THEN Walk(i + 1, seen \ {cookieKey(cookies[i])})
                 ELSE <<cookies[i]>> \o Walk(i + 1, seen \cup {cookieKey(cookies[i])})
    IN  Walk(1, {})

\* the filter callback keeps cookie i iff its key is not yet in `seen`, and
\* `seen` holds the keys of all earlier cookies (kept or not: a dropped
\* cookie's key is already in the set)
removeDuplicateCookies(cookies) ==
    LET Keep(i) == \A j \in 1..(i - 1) : cookieKey(cookies[j]) # cookieKey(cookies[i])
        RECURSIVE Walk(_)
        Walk(i) == IF i > Len(cookies) THEN <<>>
                   ELSE IF Keep(i) THEN <<cookies[i]>> \o Walk(i + 1)
                        ELSE Walk(i + 1)
    IN  Walk(1)

(***************************************************************************)
(* CookieExtractor.generateSummary                                         *)
(***************************************************************************)
\* UTF-16 code units of the characters that occur in domains
CharCode(ch) ==
    CASE ch = "." -> 46 [] ch = "/" -> 47 [] ch = "|" -> 124
      [] ch = "a" -> 97 [] ch = "b" -> 98 [] ch = "c" -> 99 [] ch = "e" -> 101
      [] ch = "n" -> 110 [] ch = "x" -> 120 [] ch = "y" -> 121 [] ch = "z" -> 122

\* a < b for strings, as Array.prototype.sort() without comparator orders them
RECURSIVE StringLess(_, _)
StringLess(a, b) ==
    IF b = <<>> THEN FALSE
    ELSE IF a = <<>> THEN TRUE
    ELSE IF Head(a) # Head(b) THEN CharCode(Head(a)) < CharCode(Head(b))
    ELSE StringLess(Tail(a), Tail(b))

\* [...new Set(list)]: the distinct elements in order of first occurrence
RECURSIVE Distinct(_)
Distinct(list) ==
    IF list = <<>> THEN <<>>
    ELSE LET front == Distinct(SubSeq(list, 1, Len(list) - 1))
             last == list[Len(list)]
         IN  IF \E i \in 1..Len(front) : front[i] = last THEN front
             ELSE Append(front, last)

RECURSIVE InsertSorted(_, _)
InsertSorted(sorted, x) ==
    IF sorted = <<>> THEN <<x>>
    ELSE IF StringLess(x, Head(sorted)) THEN <<x>> \o sorted
    ELSE <<Head(sorted)>> \o InsertSorted(Tail(sorted), x)

\* mutant: the array is left in insertion order
SortStrings_Unsorted(list) == list

\* Array.prototype.sort()
RECURSIVE SortStrings(_)
SortStrings(list) ==
    IF list = <<>> THEN <<>>
    ELSE InsertSorted(SortStrings(Tail(list)), Head(list))

\* JavaScript numbers that may be NaN or -Infinity
Num(n) == [kind |-> "number", value |-> n]
NaN == [kind |-> "NaN", value |-> 0]
NegInfinity == [kind |-> "-Infinity", value |-> 0]

\* JSON has no NaN and no infinities: JSON.stringify writes null for them
Null == [kind |-> "null", value |-> 0]
JsonNumber(n) == IF n.kind = "number" THEN n ELSE Null

RECURSIVE SumSizes(_)
SumSizes(cookies) ==
    IF cookies = <<>> THEN 0 ELSE Head(cookies).size + SumSizes(Tail(cookies))

\* mutant: the mean is truncated
MathRoundDiv_Floor(sum, count) ==
    IF count = 0 THEN NaN ELSE Num(sum \div count)

\* Math.round(sum / count) for sum >= 0: halves round up; 0 / 0 is NaN
MathRoundDiv(sum, count) ==
    IF count = 0 THEN NaN ELSE Num((2 * sum + count) \div (2 * count))

\* Math.max(...sizes); -Infinity without arguments
MathMax(sizes) ==
    IF sizes = {} THEN NegInfinity
    ELSE Num(CHOOSE m \in sizes : \A x \in sizes : x <= m)

\* cookies.reduce(...): how many cookies carry each value of the field
Histogram(cookies, field) ==
    [v \in {cookies[i][field] : i \in 1..Len(cookies)} |->
        Cardinality({i \in 1..Len(cookies) : cookies[i][field] = v})]

generateSummary(cookies) ==
    LET domains == Distinct([i \in 1..Len(cookies) |-> cookies[i].domain])
    IN  [totalCookies |-> Len(cookies),
         uniqueDomains |-> Len(domains),
         domains |-> SortStrings(domains),
         cookieTypeDistribution |-> Histogram(cookies, "cookieType"),
         securityLevelDistribution |-> Histogram(cookies, "securityLevel"),
         largestCookie |-> MathMax({cookies[i].size : i \in 1..Len(cookies)}),
         averageCookieSize |-> MathRoundDiv(SumSizes(cookies), Len(cookies))]

(***************************************************************************)
(* Strings used by the extraction protocol                                 *)
(***************************************************************************)
\* String.prototype.split(sep) for a one-character separator
RECURSIVE Split(_, _)
Split(s, sep) ==
    IF \A i \in 1..Len(s) : s[i] # sep THEN <<s>>
    ELSE LET k == CHOOSE i \in 1..Len(s) :
                      s[i] = sep /\ \A j \in 1..(i - 1) : s[j] # sep
         IN  <<SubSeq(s, 1, k - 1)>> \o Split(SubSeq(s, k + 1, Len(s)), sep)

\* Array.prototype.join(sep)
RECURSIVE Join(_, _)
Join(parts, sep) ==
    IF parts = <<>> THEN <<>>
    ELSE IF Len(parts) = 1 THEN parts[1]
    ELSE parts[1] \o <<sep>> \o Join(Tail(parts), sep)

\* String.prototype.replace(/[:.]/g, '-')
ReplaceColonsAndDots(s) ==
    [i \in 1..Len(s) |-> IF s[i] \in {":", "."} THEN "-" ELSE s[i]]

\* String.prototype.includes for a needle that is one piece of the message
Includes(message, needle) == \E i \in 1..Len(message) : message[i] = needle

(***************************************************************************)
(* The environment: clock, cookie store, URL parser, remote server         *)
(***************************************************************************)
\* new Date().toISOString(): two instants the clock may show
Times == { <<"1", "0", ":", "0", "0", ".", "1", "Z">>,
           <<"1", "0", ":", "0", "0", ".", "2", "Z">> }

\* the two readings of the clock while saveCookiesToFile builds cookieData:
\* the first for metadata.extractedAt, the second, after generateSummary has
\* run, for the filename; the clock has moved on between them, or it has not
ClockReads ==
    { << <<"1", "0", ":", "0", "0", ".", "1", "Z">>,
         <<"1", "0", ":", "0", "0", ".", "1", "Z">> >>,
      << <<"1", "0", ":", "0", "0", ".", "1", "Z">>,
         <<"1", "0", ":", "0", "0", ".", "2", "Z">> >> }

\* a cookie store: three cookies of the site e.c and its subdomains
CookieStore ==
    << Cookie(<<"s">>, <<"1", "2">>, <<"a", ".", "b", ".", "e", ".", "c">>, <<"/">>,
              TRUE, TRUE, "unspecified", FALSE, <<1700000>>),
       Cookie(<<"t">>, <<"3">>, <<".", "b", ".", "e", ".", "c">>, <<"/">>,
              FALSE, FALSE, "unspecified", TRUE, NoExpiration),
       Cookie(<<"u">>, <<"4", "5", "6">>, <<"e", ".", "c">>, <<"/">>,
              FALSE, FALSE, "Lax", FALSE, <<1700000>>) >>

\* a cookie store holding two cookies of e.c that differ in name and path,
\* both of which contain '|'
PipeStore ==
    << Cookie(<<"s">>, <<"1">>, <<"e", ".", "c">>,
              <<"/", "|", "e", ".", "c", "|", "/">>,
              FALSE, FALSE, "unspecified", TRUE, NoExpiration),
       Cookie(<<"s", "|", "e", ".", "c", "|", "/">>, <<"2">>, <<"e", ".", "c">>,
              <<"/">>,
              FALSE, FALSE, "unspecified", TRUE, NoExpiration) >>

\* a browser profile without cookies
EmptyStore == <<>>

\* what the browser's cookie store may hold
Stores == {CookieStore, PipeStore, EmptyStore}

AllFilter == <<>>                         \* getAll({})
DomainFilter(d) == <<d>>                  \* getAll({domain: d})

\* chrome.cookies.getAll: the domain filter retrieves the cookies whose
\* domain matches d or is a subdomain of d
DomainMatches(cookieDomain, d) ==
    LET host == IF cookieDomain # <<>> /\ Head(cookieDomain) = "."
                THEN Tail(cookieDomain) ELSE cookieDomain
        suffix == <<".">> \o d
    IN  \/ host = d
        \/ /\ Len(host) > Len(suffix)
           /\ SubSeq(host, Len(host) - Len(suffix) + 1, Len(host)) = suffix

RECURSIVE getAllFrom(_, _)
getAllFrom(cookies, filter) ==
    IF cookies = <<>> THEN <<>>
    ELSE IF filter = AllFilter \/ DomainMatches(Head(cookies).domain, filter[1])
         THEN <<Head(cookies)>> \o getAllFrom(Tail(cookies), filter)
         ELSE getAllFrom(Tail(cookies), filter)

getAll(filter) == getAllFrom(store, filter)

\* message.url as new URL(url) sees it: it throws, or yields a hostname
BadUrl == [valid |-> FALSE, hostname |-> <<>>]
Urls ==
    { BadUrl,
      [valid |-> TRUE, hostname |-> <<"e", ".", "c">>],
      [valid |-> TRUE, hostname |-> <<"a", ".", "b", ".", "e", ".", "c">>],
      [valid |-> TRUE, hostname |-> <<"n", ".", "z">>] }

NoUrl == <<>>
Messages ==
    { [action |-> "extractAllCookies", url |-> NoUrl],
      [action |-> "getCookieStats", url |-> NoUrl],
      [action |-> "openInTab", url |-> NoUrl],
      [action |-> "bogus", url |-> NoUrl],
      [action |-> "ExtractAllCookies", url |-> NoUrl] }
    \cup { [action |-> "extractCurrentDomain", url |-> <<u>>] : u \in Urls }

\* how the GET /api/status fetch ends
ProbeOutcomes == {"ok", "non2xx", "networkError", "abort"}

\* how chrome.cookies.getAll ends
ReadOutcomes == {"ok", "throws"}

\* how one POST /api/cookies attempt ends: fetch rejects (fetch = "rejects",
\* with the error it rejects with), or it resolves with a response whose
\* ok flag, status text, body parse and body are as given
NoText == <<>>
PostOutcome(f, n, m, ok, st, js, su, er) ==
    [fetch |-> f, name |-> n, message |-> m, ok |-> ok, statusText |-> st,
     json |-> js, success |-> su, error |-> er]

Delivered ==
    PostOutcome("resolves", "", NoText, TRUE, <<"200", ": ", "OK">>, "ok", TRUE, NoText)

FailedOutcomes ==
    { PostOutcome("rejects", "AbortError", <<"The user aborted a request.">>,
                  FALSE, NoText, "ok", FALSE, NoText),
      PostOutcome("rejects", "TypeError", <<"Failed to fetch">>,
                  FALSE, NoText, "ok", FALSE, NoText),
      PostOutcome("rejects", "TypeError",
                  <<"NetworkError", " when attempting to fetch resource.">>,
                  FALSE, NoText, "ok", FALSE, NoText),
      PostOutcome("resolves", "", NoText, FALSE,
                  <<"500", ": ", "Internal Server Error">>, "ok", FALSE, NoText),
      PostOutcome("resolves", "", NoText, TRUE, <<"200", ": ", "OK">>,
                  "throws", FALSE, NoText),
      PostOutcome("resolves", "", NoText, TRUE, <<"200", ": ", "OK">>,
                  "ok", FALSE, <<"disk full">>),
      PostOutcome("resolves", "", NoText, TRUE, <<"200", ": ", "OK">>,
                  "ok", FALSE, NoText) }

PostOutcomes == {Delivered} \cup FailedOutcomes

\* an outcome in two parts: how await fetch(...) settles, and how
\* await response.json() settles when it is reached
FetchPart(o) ==
    [fetch |-> o.fetch, name |-> o.name, message |-> o.message, ok |-> o.ok,
     statusText |-> o.statusText]
BodyPart(o) == [json |-> o.json, success |-> o.success, error |-> o.error]
Attempt(f, b) ==
    PostOutcome(f.fetch, f.name, f.message, f.ok, f.statusText,
                b.json, b.success, b.error)

\* if (!response.ok) throw ...: the body is read of a response with a
\* success status only
BodyRead(f) == f.fetch = "resolves" /\ f.ok
NoBody == [json |-> "ok", success |-> FALSE, error |-> NoText]

FetchOutcomes == {FetchPart(o) : o \in PostOutcomes}
BodyOutcomes == {BodyPart(o) : o \in {p \in PostOutcomes : BodyRead(FetchPart(p))}}

(***************************************************************************)
(* CookieExtractor: errors, probe, delivery attempt, envelope              *)
(***************************************************************************)
\* mutant: one attempt more
maxRetries_OneMore == 3 + 1

maxRetries == 3

retryDelay == 1000     \* milliseconds
probeTimeout == 3000   \* milliseconds, abort timer of the health probe
postTimeout == 10000   \* milliseconds, abort timer of one POST attempt

\* if (attempt === maxRetries): the error is thrown
\* mutant: a failed attempt, an aborted one included, ends the whole save
isLastAttempt_Always(attempt) == attempt >= 1

isLastAttempt(attempt) == attempt = maxRetries

\* mutant: the retry is immediate
shouldDelay_Never(attempt) == FALSE

\* if (attempt < maxRetries): wait retryDelay before the next attempt
shouldDelay(attempt) == attempt < maxRetries

Error(name, message) == [name |-> name, message |-> message]

ServerNotRunning ==
    Error("Error", <<"Server is not running - please start with \"npm start\"">>)
InvalidUrl == Error("TypeError", <<"Invalid URL">>)
CookieApiError == Error("Error", <<"cookies API unavailable">>)

\* mutant: any completed probe counts as an available server
checkServerAvailability_AnyResponse(outcome) == outcome \in {"ok", "non2xx"}

\* checkServerAvailability: response.ok, and false when fetch throws
checkServerAvailability(outcome) == outcome = "ok"

\* mutant: only the HTTP status decides, the body's success flag is ignored
attemptError_IgnoreSuccessFlag(o) ==
    IF o.fetch = "rejects" THEN <<Error(o.name, o.message)>>
    ELSE IF ~o.ok THEN <<Error("Error", <<"Server responded with ">> \o o.statusText)>>
    ELSE IF o.json = "throws" THEN <<Error("SyntaxError", <<"Unexpected token in JSON">>)>>
    ELSE <<>>

\* the body of the try block of one attempt: the error it throws, as a
\* one-element sequence, or the empty sequence when it reaches `return`
attemptError(o) ==
    IF o.fetch = "rejects" THEN <<Error(o.name, o.message)>>
    ELSE IF ~o.ok THEN <<Error("Error", <<"Server responded with ">> \o o.statusText)>>
    ELSE IF o.json = "throws" THEN <<Error("SyntaxError", <<"Unexpected token in JSON">>)>>
    ELSE IF ~o.success
         THEN <<Error("Error", <<"Server error: ">> \o
                      (IF o.error # NoText THEN o.error ELSE <<"Unknown error">>))>>
    ELSE <<>>

TimeoutMessage == <<"Server timeout - please check if server is running">>
ConnectMessage == <<"Cannot connect to server - please start server with \"npm start\"">>

\* mutant: the abort test is missing
finalError_NoAbortCase(error) ==
    IF Includes(error.message, "Failed to fetch")
       \/ Includes(error.message, "NetworkError")
    THEN Error("Error", ConnectMessage)
    ELSE Error("Error", <<"Server error: ">> \o error.message)

\* the error thrown after the last attempt
finalError(error) ==
    IF error.name = "AbortError" THEN Error("Error", TimeoutMessage)
    ELSE IF Includes(error.message, "Failed to fetch")
            \/ Includes(error.message, "NetworkError")
         THEN Error("Error", ConnectMessage)
    ELSE Error("Error", <<"Server error: ">> \o error.message)

\* the cookieData object of saveCookiesToFile: the clock is read at t for
\* extractedAt and again at tf for the filename
buildEnvelope(cookies, filename, t, tf) ==
    [metadata |-> [extractedAt |-> t, userAgent |-> "Chrome Extension",
                   totalCookies |-> Len(cookies),
                   extractor |-> "Advanced Cookie Extractor v1.0"],
     cookies |-> cookies,
     summary |-> generateSummary(cookies),
     filename |-> filename \o <<"_">> \o ReplaceColonsAndDots(tf) \o <<".json">>]

\* JSON.stringify(cookieData), the body of a POST, as the server parses it:
\* the two summary numbers that may be -Infinity or NaN arrive as null
JSONStringify(cookieData) ==
    [cookieData EXCEPT !.summary.largestCookie = JsonNumber(@),
                       !.summary.averageCookieSize = JsonNumber(@)]

\* catch blocks of extractAllCookies / extractCurrentDomainCookies
wrapError(action, error) ==
    Error("Error",
          <<IF action = "extractAllCookies" THEN "Failed to extract all cookies: "
            ELSE "Failed to extract domain cookies: ">> \o error.message)

\* getCookieStatistics: the stats object
cookieStatistics(cookies) ==
    LET Count(Test(_)) == Cardinality({i \in 1..Len(cookies) : Test(cookies[i])})
        IsHttpOnly(c) == c.httpOnly
        IsSecure(c) == c.secure
        IsSession(c) == c.session
        IsStrict(c) == c.sameSite = "Strict"
        IsLax(c) == c.sameSite = "Lax"
        IsNone(c) == c.sameSite = "None"
    IN  [total |-> Len(cookies), httpOnly |-> Count(IsHttpOnly),
         secure |-> Count(IsSecure), session |-> Count(IsSession),
         sameSiteStrict |-> Count(IsStrict), sameSiteLax |-> Count(IsLax),
         sameSiteNone |-> Count(IsNone),
         domains |-> Cardinality({cookies[i].domain : i \in 1..Len(cookies)})]

(***************************************************************************)
(* One handleMessage invocation                                            *)
(***************************************************************************)
Slots == {1, 2}

NoMessage == [action |-> "", url |-> NoUrl]

\* the locals of one invocation, with what it has done so far:
\*   trace      the requests it issued and the events it saw, in order
\*   reads      the filters of its chrome.cookies.getAll calls
\*   posted     the bodies of its POSTs
\*   response   the Response its POST was answered with, while its body is
\*              being read
\*   probe      how its health probe ended ("" while none has ended)
\*   outcomes   how each of its finished POST attempts ended
\*   errs       the errors of its failed attempts
\*   delays     the durations of the retry timers it set, in milliseconds
\*   fetches    its fetch calls: the path, the delay of the abort timer set
\*              for the fetch, and how the fetch ended
\*   responses  the arguments of its sendResponse calls
Blank ==
    [pc |-> "idle", msg |-> NoMessage, domain |-> <<>>, cookies |-> <<>>,
     processed |-> <<>>, total |-> 0, envelope |-> <<>>, attempt |-> 0,
     response |-> <<>>,
     probe |-> "", outcomes |-> <<>>, errs |-> <<>>, delays |-> <<>>,
     trace |-> <<>>,
     reads |-> <<>>, posted |-> <<>>, fetches |-> <<>>, responses |-> <<>>]

Off == [Blank EXCEPT !.pc = "off"]

SuccessResponse(data) == [success |-> TRUE, data |-> <<data>>, error |-> <<>>]
FailResponse(message) == [success |-> FALSE, data |-> <<>>, error |-> message]
\* sendResponse({ success: true }) of the openInTab case
Acknowledge == [success |-> TRUE, data |-> <<>>, error |-> <<>>]

\* sendResponse(...), after which handleMessage is over
Respond(r, response) ==
    [r EXCEPT !.responses = Append(@, response),
              !.trace = Append(@, "respond"),
              !.pc = "done"]

\* mutant: the failure response carries what had been extracted so far
ThrowFromExtract_PartialData(r, error) ==
    Respond(r, [success |-> FALSE,
                data |-> <<[total |-> r.total, cookies |-> r.processed]>>,
                error |-> wrapError(r.msg.action, error).message])

\* mutant: handleMessage has no catch; the error ends the invocation as an
\* unhandled rejection and nothing is sent
ThrowFromExtract_Unhandled(r, error) ==
    [r EXCEPT !.trace = Append(@, "unhandled"), !.pc = "done"]

\* an error leaving extractAllCookies / extractCurrentDomainCookies: wrapped
\* by the function's catch, reported by handleMessage's catch
ThrowFromExtract(r, error) ==
    Respond(r, FailResponse(wrapError(r.msg.action, error).message))

\* new AbortController(), setTimeout(() => controller.abort(), timeout) and
\* fetch(path, {signal: controller.signal})
IssueFetch(r, path, timeout) ==
    [r EXCEPT !.fetches = Append(@, [path |-> path, timeout |-> timeout,
                                     state |-> "pending"])]

\* the pending fetch ends: it resolves with a response, rejects because its
\* controller aborted it, or rejects for another reason
EndFetch(r, state) ==
    [r EXCEPT !.fetches[Len(r.fetches)].state = state]

ProbeEnd(outcome) ==
    IF outcome = "abort" THEN "aborted"
    ELSE IF outcome = "networkError" THEN "failed" ELSE "responded"

PostEnd(o) ==
    IF o.fetch = "resolves" THEN "responded"
    ELSE IF o.name = "AbortError" THEN "aborted" ELSE "failed"

\* checkServerAvailability up to its fetch
StartProbe(r) ==
    [IssueFetch(r, "/api/status", probeTimeout)
        EXCEPT !.trace = Append(@, "probe"), !.pc = "probeWait"]

\* chrome.cookies.getAll(filter) is called
IssueRead(r, filter, waitPc) ==
    [r EXCEPT !.reads = Append(@, filter),
              !.trace = Append(@, "read"),
              !.pc = waitPc]

\* mutant: the body is rebuilt for every attempt, under a filename of its own
NextAttempt_NewFilename(r) ==
    [IssueFetch(r, "/api/cookies", postTimeout) EXCEPT !.attempt = @ + 1,
              !.posted = Append(@, JSONStringify([r.envelope[1] EXCEPT
                                       !.filename = @ \o <<"_retry">>])),
              !.trace = Append(@, "post"),
              !.pc = "postWait"]

\* the for loop moves on: attempt++ and the next fetch is issued
NextAttempt(r) ==
    [IssueFetch(r, "/api/cookies", postTimeout) EXCEPT !.attempt = @ + 1,
              !.posted = Append(@, JSONStringify(r.envelope[1])),
              !.trace = Append(@, "post"),
              !.pc = "postWait"]

\* mutant: an empty cookie list is refused before anything is sent
StartSave_RefusesEmpty(r, cookies, total, filename, t, tf) ==
    IF cookies = <<>>
    THEN ThrowFromExtract(r, Error("Error", <<"No cookies found">>))
    ELSE LET processedCookies == processCookies(cookies)
             cookieData == buildEnvelope(processedCookies, filename, t, tf)
         IN  [IssueFetch(r, "/api/cookies", postTimeout) EXCEPT
                  !.cookies = cookies,
                  !.processed = processedCookies,
                  !.total = total,
                  !.envelope = <<cookieData>>,
                  !.attempt = 1,
                  !.posted = Append(@, JSONStringify(cookieData)),
                  !.trace = Append(@, "post"),
                  !.pc = "postWait"]

\* saveCookiesToFile up to the first fetch: cookieData is built and attempt 1
\* is posted
StartSave(r, cookies, total, filename, t, tf) ==
    LET processedCookies == processCookies(cookies)
        cookieData == buildEnvelope(processedCookies, filename, t, tf)
    IN  [IssueFetch(r, "/api/cookies", postTimeout) EXCEPT !.cookies = cookies,
                  !.processed = processedCookies,
                  !.total = total,
                  !.envelope = <<cookieData>>,
                  !.attempt = 1,
                  !.posted = Append(@, JSONStringify(cookieData)),
                  !.trace = Append(@, "post"),
                  !.pc = "postWait"]

(***************************************************************************)
(* The server's storage (server.js is not part of the sources; modelled    *)
(* from the specification's section 4.5)                                   *)
(***************************************************************************)
\* create: the envelope, as received, is written to the file named by its
\* filename field, whatever was stored under that name before
ServerCreate(fs, envelope) ==
    {f \in fs : f.name # envelope.filename}
        \cup {[name |-> envelope.filename, content |-> envelope]}

\* whether the server has written the file when the client sees outcome o:
\* it has when it reports success, it may or may not have when the client
\* gave up waiting, and it has not otherwise
ServerWrote(o) ==
    IF o.fetch = "resolves" /\ o.ok /\ o.json = "ok" /\ o.success THEN {TRUE}
    ELSE IF o.fetch = "rejects" /\ o.name = "AbortError" THEN {TRUE, FALSE}
    ELSE {FALSE}

InitServer == files = {}

\* new Map()
NewMap == <<>>

\* the CookieExtractor's constructor
InitExtractor == cookieCache = NewMap

(***************************************************************************)
(* The pages of the extension: initial state                               *)
(***************************************************************************)
\* the child nodes of #logOutput: text nodes and the div elements that
\* log() appends (an entry's text and style do not enter any count and are
\* left out)
TextNode == "#text"
LogEntry == "div"

\* logOutput.children.length: the element children
ChildrenLength(nodes) == Cardinality({i \in 1..Len(nodes) : nodes[i] = LogEntry})

logLimit == 50

\* log(message, type): appendChild(logEntry), then removeChild(firstChild)
\* if there are more than 50 element children
log(nodes) ==
    LET appended == Append(nodes, LogEntry)
    IN  IF ChildrenLength(appended) > logLimit THEN Tail(appended) ELSE appended

\* n calls of log in a row
RECURSIVE logTimes(_, _)
logTimes(nodes, n) == IF n = 0 THEN nodes ELSE logTimes(log(nodes), n - 1)

\* clearLogs: innerHTML = 'Logs cleared. Ready to extract cookies...'
clearLogs(nodes) == <<TextNode>>

\* mutant: the loading indicator is switched, the buttons are left alone
showLoading_IndicatorOnly(p, show) == [p EXCEPT !.loading = show]

\* showLoading(show): the indicator's display and every button's disabled
showLoading(p, show) == [p EXCEPT !.loading = show, !.disabled = show]

\* the popup after its constructor: nothing is loading, the buttons are
\* enabled, no extraction runs and the constructor's loadCookieStatistics
\* waits for its response
PopupStart ==
    [loading |-> FALSE, disabled |-> FALSE, tasks |-> <<>>, initStats |-> "pending"]

InitUi ==
    /\ tabs = 0
    /\ tabTasks = <<>>
    /\ logOutput = <<>>
    /\ popup = PopupStart

(***************************************************************************)
(* openExtractorInTab                                                      *)
(***************************************************************************)
\* one invocation: what triggered it, where it is, how many extractor tabs
\* its chrome.tabs.query found, and what it did with the answer
NewTabTask(kind) == [kind |-> kind, pc |-> "query", found |-> 0, did |-> ""]

\* openExtractorInTab() up to its await: the query is sent
openExtractorInTab(tasks, kind) == Append(tasks, NewTabTask(kind))

\* the ids the context menu and the command listener compare with
MenuItemIds == {"open-cookie-extractor", "other-item"}
Commands == {"open_in_tab", "other-command"}

(***************************************************************************)
(* Inputs of the pure-function harness                                     *)
(***************************************************************************)
SameSiteValues == {"Strict", "Lax", "None", "unspecified", "strict"}
ExpirationValues == {NoExpiration, <<0>>, <<1700000>>}

\* every combination of the flags the classification reads
FlagCookies ==
    { Cookie(<<"a">>, <<"1">>, <<"x">>, <<"/">>, sec, ho, ss, sess, exp) :
        sec \in BOOLEAN, ho \in BOOLEAN, ss \in SameSiteValues,
        sess \in BOOLEAN, exp \in ExpirationValues }

\* names and paths may contain '|' (it is a legal cookie-name and path
\* character); domains may not
KeyNames == { <<"a">>, <<"a", "|", "x", "|", "/">> }
KeyDomains == { <<"x">>, <<"y">> }
KeyPaths == { <<"/">>, <<"/", "|", "x", "|", "/">> }
KeyValues == { <<"1">>, <<"2">> }

KeyCookies ==
    { Cookie(n, v, d, p, FALSE, FALSE, "unspecified", TRUE, NoExpiration) :
        n \in KeyNames, v \in KeyValues, d \in KeyDomains, p \in KeyPaths }

SeqsUpTo(S, n) == UNION { [1..k -> S] : k \in 0..n }

\* cookies of several domains and sizes, for the summary
SummaryDomains ==
    { <<"b">>, <<"b", "a">>, <<"a", ".", "b">>, <<".", "b">> }
SummaryValues == { <<"1">>, <<"1", "2">> }

SummaryCookies ==
    { Cookie(<<"a">>, v, d, <<"/">>, TRUE, FALSE, "Lax", FALSE, <<1700000>>) :
        v \in SummaryValues, d \in SummaryDomains }

PureInputs ==
    { <<c>> : c \in FlagCookies }
    \cup SeqsUpTo(KeyCookies, MaxLen)
    \cup SeqsUpTo(SummaryCookies, MaxLen)

(***************************************************************************)
(* Pure-function harness: draw an input, apply one function to it          *)
(***************************************************************************)
InitPure ==
    /\ pIn \in PureInputs
    /\ pOp = "none"
    /\ pProcessed = <<>>
    /\ pUnique = <<>>
    /\ pAgain = <<>>
    /\ pSummary = generateSummary(<<>>)
    /\ InitExtractor
    /\ InitServer
    /\ InitUi
    /\ call = [c \in Slots |-> Off]
    /\ served = [c \in Slots |-> 0]
    /\ store = CookieStore

CallProcessCookies ==
    /\ pOp = "none"
    /\ pOp' = "processCookies"
    /\ pProcessed' = processCookies(pIn)
    /\ UNCHANGED <<pIn, pUnique, pAgain, pSummary, protoVars, files, uiVars>>

CallRemoveDuplicateCookies ==
    /\ pOp = "none"
    /\ pOp' = "removeDuplicateCookies"
    /\ pUnique' = removeDuplicateCookies(pIn)
    /\ UNCHANGED <<pIn, pProcessed, pAgain, pSummary, protoVars, files, uiVars>>

\* removeDuplicateCookies applied to its own result
CallRemoveDuplicateCookiesAgain ==
    /\ pOp = "removeDuplicateCookies"
    /\ pOp' = "removeDuplicateCookiesTwice"
    /\ pAgain' = removeDuplicateCookies(pUnique)
    /\ UNCHANGED <<pIn, pProcessed, pUnique, pSummary, protoVars, files, uiVars>>

\* generateSummary applied to the processed cookies, as saveCookiesToFile does
CallGenerateSummary ==
    /\ pOp = "processCookies"
    /\ pOp' = "generateSummary"
    /\ pSummary' = generateSummary(pProcessed)
    /\ UNCHANGED <<pIn, pProcessed, pUnique, pAgain, protoVars, files, uiVars>>

NextPure ==
    \/ CallProcessCookies
    \/ CallRemoveDuplicateCookies
    \/ CallRemoveDuplicateCookiesAgain
    \/ CallGenerateSummary

SpecPure == InitPure /\ [][NextPure]_vars

(***************************************************************************)
(* Actions of the extraction protocol                                      *)
(***************************************************************************)
\* the messages the listener has received so far
Received == served[1] + served[2]

\* mutant: the switch has no default case of its own; what is neither a
\* statistics nor a tab request runs the extraction
IsExtraction_ByDefault(action) == action \notin {"getCookieStats", "openInTab"}

IsExtraction(action) == action \in {"extractAllCookies", "extractCurrentDomain"}

\* mutant: a message is handled only when no other invocation is in flight
Receive_Exclusive(c, m) ==
    /\ call[c].pc \in {"idle", "done"}
    /\ \A d \in Slots \ {c} : call[d].pc \in {"off", "idle", "done"}
    /\ Received < MaxCalls
    /\ served' = [served EXCEPT ![c] = @ + 1]
    /\ LET r == [Blank EXCEPT !.msg = m]
       IN  call' = [call EXCEPT ![c] =
                IF IsExtraction(m.action)
                THEN StartProbe(r)
                ELSE IF m.action = "getCookieStats"
                THEN IssueRead(r, AllFilter, "statsWait")
                ELSE IF m.action = "openInTab"
                THEN Respond([r EXCEPT !.trace = Append(@, "openExtractorInTab")],
                             Acknowledge)
                ELSE Respond(r, FailResponse(<<"Unknown action">>))]
    /\ tabTasks' = IF m.action = "openInTab"
                   THEN openExtractorInTab(tabTasks, "message") ELSE tabTasks
    /\ UNCHANGED <<store, cookieCache, files, pureVars, tabs, popupVars>>

\* mutant: a slot that has served a message before takes the server to be
\* available and starts with the cookie store read
Receive_SkipProbe(c, m) ==
    /\ call[c].pc \in {"idle", "done"}
    /\ Received < MaxCalls
    /\ served' = [served EXCEPT ![c] = @ + 1]
    /\ LET r == [Blank EXCEPT !.msg = m]
       IN  call' = [call EXCEPT ![c] =
                IF m.action = "extractAllCookies" /\ served[c] > 0
                THEN IssueRead(r, AllFilter, "readWait")
                ELSE IF IsExtraction(m.action)
                THEN StartProbe(r)
                ELSE IF m.action = "getCookieStats"
                THEN IssueRead(r, AllFilter, "statsWait")
                ELSE IF m.action = "openInTab"
                THEN Respond([r EXCEPT !.trace = Append(@, "openExtractorInTab")],
                             Acknowledge)
                ELSE Respond(r, FailResponse(<<"Unknown action">>))]
    /\ tabTasks' = IF m.action = "openInTab"
                   THEN openExtractorInTab(tabTasks, "message") ELSE tabTasks
    /\ UNCHANGED <<store, cookieCache, files, pureVars, tabs, popupVars>>

\* chrome.runtime.onMessage: handleMessage runs up to its first await
Receive(c, m) ==
    /\ call[c].pc \in {"idle", "done"}
    /\ Received < MaxCalls
    /\ served' = [served EXCEPT ![c] = @ + 1]
    /\ LET r == [Blank EXCEPT !.msg = m]
       IN  call' = [call EXCEPT ![c] =
                IF IsExtraction(m.action)
                THEN StartProbe(r)
                ELSE IF m.action = "getCookieStats"
                THEN IssueRead(r, AllFilter, "statsWait")
                ELSE IF m.action = "openInTab"
                THEN Respond([r EXCEPT !.trace = Append(@, "openExtractorInTab")],
                             Acknowledge)
                ELSE Respond(r, FailResponse(<<"Unknown action">>))]
    /\ tabTasks' = IF m.action = "openInTab"
                   THEN openExtractorInTab(tabTasks, "message") ELSE tabTasks
    /\ UNCHANGED <<store, cookieCache, files, pureVars, tabs, popupVars>>

\* mutant: the hostname is taken from the URL without parsing it
ProbeReturn_UncheckedUrl(c, outcome) ==
    /\ call[c].pc = "probeWait"
    /\ LET r == [EndFetch(call[c], ProbeEnd(outcome))
                     EXCEPT !.trace = Append(@, "probeDone"), !.probe = outcome]
           url == r.msg.url[1]
       IN  call' = [call EXCEPT ![c] =
                IF ~checkServerAvailability(outcome)
                THEN ThrowFromExtract(r, ServerNotRunning)
                ELSE IF r.msg.action = "extractAllCookies"
                THEN IssueRead(r, AllFilter, "readWait")
                ELSE IssueRead([r EXCEPT !.domain = url.hostname],
                               DomainFilter(url.hostname), "readWait")]
    /\ UNCHANGED <<served, store, cookieCache, files, pureVars, uiVars>>

\* the health probe ends; on success the extraction goes on to its first
\* cookie store read
ProbeReturn(c, outcome) ==
    /\ call[c].pc = "probeWait"
    /\ LET r == [EndFetch(call[c], ProbeEnd(outcome))
                     EXCEPT !.trace = Append(@, "probeDone"), !.probe = outcome]
           url == r.msg.url[1]
       IN  call' = [call EXCEPT ![c] =
                IF ~checkServerAvailability(outcome)
                THEN ThrowFromExtract(r, ServerNotRunning)
                ELSE IF r.msg.action = "extractAllCookies"
                THEN IssueRead(r, AllFilter, "readWait")
                ELSE IF ~url.valid
                THEN ThrowFromExtract(r, InvalidUrl)
                ELSE IssueRead([r EXCEPT !.domain = url.hostname],
                               DomainFilter(url.hostname), "readWait")]
    /\ UNCHANGED <<served, store, cookieCache, files, pureVars, uiVars>>

\* the first chrome.cookies.getAll ends
ReadReturn(c, outcome, t, tf) ==
    /\ call[c].pc = "readWait"
    /\ LET r == call[c]
           cookies == getAll(r.reads[Len(r.reads)])
           domainParts == Split(r.domain, ".")
       IN  call' = [call EXCEPT ![c] =
                IF outcome = "throws"
                THEN ThrowFromExtract(r, CookieApiError)
                ELSE IF r.msg.action = "extractAllCookies"
                THEN StartSave(r, cookies, Len(cookies), <<"all_cookies">>, t, tf)
                ELSE IF Len(domainParts) > 2
                THEN IssueRead([r EXCEPT !.cookies = cookies],
                               DomainFilter(Join(Tail(domainParts), ".")),
                               "parentWait")
                ELSE LET uniqueCookies == removeDuplicateCookies(cookies)
                     IN  StartSave(r, uniqueCookies, Len(uniqueCookies),
                                   <<"cookies_">> \o r.domain, t, tf)]
    /\ UNCHANGED <<served, store, cookieCache, files, pureVars, uiVars>>

\* the parent-domain chrome.cookies.getAll ends
ParentReturn(c, outcome, t, tf) ==
    /\ call[c].pc = "parentWait"
    /\ LET r == call[c]
           parentCookies == getAll(r.reads[Len(r.reads)])
           uniqueCookies == removeDuplicateCookies(r.cookies \o parentCookies)
       IN  call' = [call EXCEPT ![c] =
                IF outcome = "throws"
                THEN ThrowFromExtract(r, CookieApiError)
                ELSE StartSave(r, uniqueCookies, Len(uniqueCookies),
                               <<"cookies_">> \o r.domain, t, tf)]
    /\ UNCHANGED <<served, store, cookieCache, files, pureVars, uiVars>>

\* the catch block of one attempt: the error is thrown on after the last
\* attempt, and otherwise the retry timer is set
CatchAttempt(r, error) ==
    LET f == [r EXCEPT !.errs = Append(@, error),
                       !.trace = Append(@, "postFail")]
    IN  IF isLastAttempt(r.attempt)
        THEN ThrowFromExtract(f, finalError(error))
        ELSE IF shouldDelay(r.attempt)
        THEN [f EXCEPT !.delays = Append(@, retryDelay),
                       !.trace = Append(@, "delay"),
                       !.pc = "delayWait"]
        ELSE NextAttempt(f)

\* await fetch(...) of one POST attempt settles as f; the abort timer is
\* cleared and, when the status is a success status, response.json() is
\* called and awaited
PostReturn(c, f) ==
    /\ call[c].pc = "postWait"
    /\ LET o == Attempt(f, NoBody)
           r == EndFetch(call[c], PostEnd(o))
       IN  /\ call' = [call EXCEPT ![c] =
                  IF BodyRead(f)
                  THEN [r EXCEPT !.response = <<f>>, !.pc = "bodyWait"]
                  ELSE CatchAttempt([r EXCEPT !.outcomes = Append(@, o)],
                                    attemptError(o)[1])]
           /\ IF BodyRead(f)
              THEN files' = files
              ELSE \E w \in ServerWrote(o) :
                       files' = IF w THEN ServerCreate(files,
                                              call[c].posted[Len(call[c].posted)])
                                ELSE files
    /\ UNCHANGED <<served, store, cookieCache, pureVars, uiVars>>

\* await response.json() settles as b: the attempt is over, and with a true
\* success flag so are saveCookiesToFile and the extraction
BodyReturn(c, b, t) ==
    /\ call[c].pc = "bodyWait"
    /\ LET o == Attempt(call[c].response[1], b)
           r == [call[c] EXCEPT !.outcomes = Append(@, o), !.response = <<>>]
           thrown == attemptError(o)
           data == IF r.msg.action = "extractAllCookies"
                   THEN [total |-> r.total, cookies |-> r.processed, timestamp |-> t]
                   ELSE [domain |-> r.domain, total |-> r.total,
                         cookies |-> r.processed, timestamp |-> t]
       IN  /\ call' = [call EXCEPT ![c] =
                  IF thrown = <<>>
                  THEN Respond([r EXCEPT !.trace = Append(@, "postOk")],
                               SuccessResponse(data))
                  ELSE CatchAttempt(r, thrown[1])]
           /\ \E w \in ServerWrote(o) :
                  files' = IF w THEN ServerCreate(files,
                                         call[c].posted[Len(call[c].posted)])
                           ELSE files
    /\ UNCHANGED <<served, store, cookieCache, pureVars, uiVars>>

\* the retry delay is over: the next attempt is posted
DelayElapsed(c) ==
    /\ call[c].pc = "delayWait"
    /\ call' = [call EXCEPT ![c] = NextAttempt(@)]
    /\ UNCHANGED <<served, store, cookieCache, files, pureVars, uiVars>>

\* mutant: the statistics are kept in the cache
StatsReturn_Cached(c, outcome) ==
    /\ call[c].pc = "statsWait"
    /\ LET r == call[c]
           stats == cookieStatistics(getAll(AllFilter))
       IN  /\ call' = [call EXCEPT ![c] =
                  IF outcome = "throws"
                  THEN Respond(r, FailResponse(CookieApiError.message))
                  ELSE Respond(r, SuccessResponse(stats))]
           /\ cookieCache' = IF outcome = "throws" THEN cookieCache
                             ELSE [k \in {"stats"} |-> stats]
    /\ UNCHANGED <<served, store, files, pureVars, uiVars>>

\* mutant: the statistics are delivered to the server like an extraction
StatsReturn_Delivered(c, outcome) ==
    /\ call[c].pc = "statsWait"
    /\ LET r == call[c]
           stats == cookieStatistics(getAll(AllFilter))
       IN  /\ call' = [call EXCEPT ![c] =
                  IF outcome = "throws"
                  THEN Respond(r, FailResponse(CookieApiError.message))
                  ELSE Respond(EndFetch(IssueFetch(r, "/api/cookies", postTimeout),
                                        "responded"),
                               SuccessResponse(stats))]
           /\ files' = IF outcome = "throws" THEN files
                       ELSE ServerCreate(files, [filename |-> <<"stats">>,
                                                 cookies |-> stats])
    /\ UNCHANGED <<served, store, cookieCache, pureVars, uiVars>>

\* getCookieStatistics: its chrome.cookies.getAll ends
StatsReturn(c, outcome) ==
    /\ call[c].pc = "statsWait"
    /\ LET r == call[c]
       IN  call' = [call EXCEPT ![c] =
                IF outcome = "throws"
                THEN Respond(r, FailResponse(CookieApiError.message))
                ELSE Respond(r, SuccessResponse(cookieStatistics(getAll(AllFilter))))]
    /\ UNCHANGED <<served, store, cookieCache, files, pureVars, uiVars>>

\* chrome.contextMenus.onClicked
ContextMenuClicked(menuItemId) ==
    /\ Len(tabTasks) < MaxTriggers
    /\ tabTasks' = IF menuItemId = "open-cookie-extractor"
                   THEN openExtractorInTab(tabTasks, "contextMenu") ELSE tabTasks
    /\ UNCHANGED <<protoVars, files, pureVars, tabs, popupVars>>

\* chrome.commands.onCommand
CommandReceived(command) ==
    /\ Len(tabTasks) < MaxTriggers
    /\ tabTasks' = IF command = "open_in_tab"
                   THEN openExtractorInTab(tabTasks, "command") ELSE tabTasks
    /\ UNCHANGED <<protoVars, files, pureVars, tabs, popupVars>>

\* chrome.action.onClicked
ActionClicked ==
    /\ Len(tabTasks) < MaxTriggers
    /\ tabTasks' = openExtractorInTab(tabTasks, "action")
    /\ UNCHANGED <<protoVars, files, pureVars, tabs, popupVars>>

\* the browser evaluates chrome.tabs.query({url}) of invocation k
TabsQueryAnswered(k) ==
    /\ k \in 1..Len(tabTasks)
    /\ tabTasks[k].pc = "query"
    /\ tabTasks' = [tabTasks EXCEPT ![k].pc = "resume", ![k].found = tabs]
    /\ UNCHANGED <<protoVars, files, pureVars, tabs, popupVars>>

\* invocation k goes on after its await: it focuses tabs[0] if the query
\* found a tab, and creates a tab otherwise
TabsQueryResumed(k) ==
    /\ k \in 1..Len(tabTasks)
    /\ tabTasks[k].pc = "resume"
    /\ IF tabTasks[k].found > 0
       THEN /\ tabTasks' = [tabTasks EXCEPT ![k].pc = "done", ![k].did = "focus"]
            /\ tabs' = tabs
       ELSE /\ tabTasks' = [tabTasks EXCEPT ![k].pc = "done", ![k].did = "create"]
            /\ tabs' = tabs + 1
    /\ UNCHANGED <<protoVars, files, pureVars, popupVars>>

Init ==
    /\ call = [c \in Slots |-> IF c = 1 THEN Blank ELSE Off]
    /\ served = [c \in Slots |-> 0]
    /\ store \in Stores
    /\ pIn = <<>>
    /\ pOp = "none"
    /\ pProcessed = <<>>
    /\ pUnique = <<>>
    /\ pAgain = <<>>
    /\ pSummary = generateSummary(<<>>)
    /\ InitExtractor
    /\ InitServer
    /\ InitUi

Next ==
    \/ \E c \in Slots, m \in Messages : Receive(c, m)
    \/ \E c \in Slots, o \in ProbeOutcomes : ProbeReturn(c, o)
    \/ \E c \in Slots, o \in ReadOutcomes, ts \in ClockReads :
           ReadReturn(c, o, ts[1], ts[2])
    \/ \E c \in Slots, o \in ReadOutcomes, ts \in ClockReads :
           ParentReturn(c, o, ts[1], ts[2])
    \/ \E c \in Slots, f \in FetchOutcomes : PostReturn(c, f)
    \/ \E c \in Slots, b \in BodyOutcomes, t \in Times : BodyReturn(c, b, t)
    \/ \E c \in Slots : DelayElapsed(c)
    \/ \E c \in Slots, o \in ReadOutcomes : StatsReturn(c, o)
    \/ \E k \in 1..MaxCalls : TabsQueryAnswered(k)
    \/ \E k \in 1..MaxCalls : TabsQueryResumed(k)

Spec == Init /\ [][Next]_vars

(***************************************************************************)
(* Two invocations of handleMessage in flight at the same time: the         *)
(* listener does not await handleMessage, so a second message is handled   *)
(* while the first invocation waits for a fetch, the cookie store or the    *)
(* retry timer.                                                            *)
(***************************************************************************)
ConcMessages ==
    { [action |-> "extractAllCookies", url |-> NoUrl],
      [action |-> "extractCurrentDomain",
       url |-> <<[valid |-> TRUE, hostname |-> <<"a", ".", "b", ".", "e", ".", "c">>]>>] }

ConcOutcomes ==
    { Delivered,
      PostOutcome("rejects", "AbortError", <<"The user aborted a request.">>,
                  FALSE, NoText, "ok", FALSE, NoText),
      PostOutcome("resolves", "", NoText, TRUE, <<"200", ": ", "OK">>,
                  "ok", FALSE, <<"disk full">>) }

InitConc ==
    /\ call = [c \in Slots |-> Blank]
    /\ served = [c \in Slots |-> 0]
    /\ store = CookieStore
    /\ pIn = <<>>
    /\ pOp = "none"
    /\ pProcessed = <<>>
    /\ pUnique = <<>>
    /\ pAgain = <<>>
    /\ pSummary = generateSummary(<<>>)
    /\ InitExtractor
    /\ InitServer
    /\ InitUi

NextConc ==
    \/ \E c \in Slots, m \in ConcMessages : Receive(c, m)
    \/ \E c \in Slots, o \in ProbeOutcomes : ProbeReturn(c, o)
    \/ \E c \in Slots, o \in ReadOutcomes, ts \in ClockReads :
           ReadReturn(c, o, ts[1], ts[2])
    \/ \E c \in Slots, o \in ReadOutcomes, ts \in ClockReads :
           ParentReturn(c, o, ts[1], ts[2])
    \/ \E c \in Slots, o \in ConcOutcomes : PostReturn(c, FetchPart(o))
    \/ \E c \in Slots, o \in ConcOutcomes, t \in Times :
           BodyRead(FetchPart(o)) /\ BodyReturn(c, BodyPart(o), t)
    \/ \E c \in Slots : DelayElapsed(c)

SpecConc == InitConc /\ [][NextConc]_vars

(***************************************************************************)
(* The triggers of openExtractorInTab (SpecTabs)                           *)
(***************************************************************************)
OpenInTabMessage == [action |-> "openInTab", url |-> NoUrl]

NextTabs ==
    \/ \E id \in MenuItemIds : ContextMenuClicked(id)
    \/ \E command \in Commands : CommandReceived(command)
    \/ ActionClicked
    \/ \E c \in Slots : Receive(c, OpenInTabMessage)
    \/ \E k \in 1..(MaxTriggers + MaxCalls) : TabsQueryAnswered(k)
    \/ \E k \in 1..(MaxTriggers + MaxCalls) : TabsQueryResumed(k)

SpecTabs == Init /\ [][NextTabs]_vars

(***************************************************************************)
(* The popup page (SpecPopup)                                              *)
(***************************************************************************)
\* what the callback of chrome.runtime.sendMessage receives: a response with
\* success true, one with success false, or undefined
Responses == {"success", "failure", "none"}

\* what chrome.tabs.query({active, currentWindow}) yields: no tab, a tab
\* whose url new URL() does not parse, or a page
ActiveTabs == {"none", "badUrl", "page"}

\* how many cookie types the cookies of a domain response show
TypeCounts == 0..2

RemoveAt(seq, k) == SubSeq(seq, 1, k - 1) \o SubSeq(seq, k + 1, Len(seq))

\* the finally block of an extraction handler, after which it is over
FinishTask(p, k) == showLoading([p EXCEPT !.tasks = RemoveAt(@, k)], FALSE)

\* click on #extractAll: extractAllCookies up to its await
ClickExtractAll ==
    /\ ~popup.disabled
    /\ Len(popup.tasks) < MaxInFlight
    /\ popup' = [showLoading(popup, TRUE) EXCEPT
                     !.tasks = Append(@, [kind |-> "all", pc |-> "awaitExtract"])]
    /\ logOutput' = log(logOutput)
    /\ UNCHANGED <<protoVars, files, pureVars, tabVars>>

\* click on #extractCurrent: extractCurrentDomainCookies up to its await
ClickExtractCurrent ==
    /\ ~popup.disabled
    /\ Len(popup.tasks) < MaxInFlight
    /\ popup' = [showLoading(popup, TRUE) EXCEPT
                     !.tasks = Append(@, [kind |-> "domain", pc |-> "awaitTab"])]
    /\ UNCHANGED <<protoVars, files, pureVars, tabVars, logOutput>>

\* click on #clearLogs
ClickClearLogs ==
    /\ ~popup.disabled
    /\ logOutput' = clearLogs(logOutput)
    /\ UNCHANGED <<protoVars, files, pureVars, tabVars, popup>>

\* extractCurrentDomainCookies goes on with the active tab
ActiveTabReturned(k, tab) ==
    /\ k \in 1..Len(popup.tasks)
    /\ popup.tasks[k].pc = "awaitTab"
    /\ logOutput' = log(logOutput)
    /\ popup' = IF tab = "page"
                THEN [popup EXCEPT !.tasks[k].pc = "awaitExtract"]
                ELSE FinishTask(popup, k)
    /\ UNCHANGED <<protoVars, files, pureVars, tabVars>>

\* the response to the extraction message arrives
ExtractResponse(k, response, types) ==
    /\ k \in 1..Len(popup.tasks)
    /\ popup.tasks[k].pc = "awaitExtract"
    /\ IF popup.tasks[k].kind = "all"
       THEN /\ logOutput' = log(logOutput)
            /\ popup' = IF response = "success"
                        THEN [popup EXCEPT !.tasks[k].pc = "awaitStats"]
                        ELSE FinishTask(popup, k)
       ELSE /\ logOutput' = IF response = "success"
                            THEN logTimes(logOutput, 3 + types)
                            ELSE log(logOutput)
            /\ popup' = FinishTask(popup, k)
    /\ UNCHANGED <<protoVars, files, pureVars, tabVars>>

\* the response to the getCookieStats message of `await
\* this.loadCookieStatistics()` arrives
StatsResponse(k, response) ==
    /\ k \in 1..Len(popup.tasks)
    /\ popup.tasks[k].pc = "awaitStats"
    /\ logOutput' = IF response = "success" THEN logOutput ELSE log(logOutput)
    /\ popup' = FinishTask(popup, k)
    /\ UNCHANGED <<protoVars, files, pureVars, tabVars>>

\* the response to the constructor's loadCookieStatistics arrives
InitStatsResponse(response) ==
    /\ popup.initStats = "pending"
    /\ logOutput' = IF response = "success" THEN logOutput ELSE log(logOutput)
    /\ popup' = [popup EXCEPT !.initStats = "done"]
    /\ UNCHANGED <<protoVars, files, pureVars, tabVars>>

InitPopup ==
    /\ call = [c \in Slots |-> Off]
    /\ served = [c \in Slots |-> 0]
    /\ store = CookieStore
    /\ pIn = <<>>
    /\ pOp = "none"
    /\ pProcessed = <<>>
    /\ pUnique = <<>>
    /\ pAgain = <<>>
    /\ pSummary = generateSummary(<<>>)
    /\ InitExtractor
    /\ InitServer
    /\ InitUi

\* an extraction handler of the popup receives what it awaits
TaskAnswered ==
    \/ \E k \in 1..MaxInFlight, tab \in ActiveTabs : ActiveTabReturned(k, tab)
    \/ \E k \in 1..MaxInFlight, response \in Responses, types \in TypeCounts :
           ExtractResponse(k, response, types)
    \/ \E k \in 1..MaxInFlight, response \in Responses : StatsResponse(k, response)

NextPopup ==
    \/ ClickExtractAll
    \/ ClickExtractCurrent
    \/ ClickClearLogs
    \/ TaskAnswered
    \/ \E response \in Responses : InitStatsResponse(response)

\* the browser and the background answer what the popup awaits
SpecPopup == InitPopup /\ [][NextPopup]_vars /\ WF_vars(TaskAnswered)

(***************************************************************************)
(* Classification claims (SpecPure)                                        *)
(***************************************************************************)
\* the category the priority order secure-httponly > httponly > secure >
\* session > regular assigns, written as disjoint cases
PriorityCategory(c) ==
    CASE c.httpOnly /\ c.secure -> "secure-httponly"
      [] c.httpOnly /\ ~c.secure -> "httponly"
      [] ~c.httpOnly /\ c.secure -> "secure"
      [] ~c.httpOnly /\ ~c.secure /\ c.session -> "session"
      [] OTHER -> "regular"

\* C8: for every combination of httpOnly, secure and session, categorizeCookie
\* returns the first matching category of the priority order; a cookie with
\* httpOnly and secure both set is secure-httponly, never secure or httponly.
C8_CategoryPriority ==
    pOp = "processCookies" =>
        \A i \in 1..Len(pIn) :
            /\ pProcessed[i].cookieType = PriorityCategory(pIn[i])
            /\ (pIn[i].httpOnly /\ pIn[i].secure) =>
                    /\ pProcessed[i].cookieType = "secure-httponly"
                    /\ pProcessed[i].cookieType \notin {"secure", "httponly"}

C8_Witness ==
    /\ pOp = "processCookies"
    /\ \E i \in 1..Len(pIn) :
        /\ pIn[i].httpOnly /\ pIn[i].secure /\ pIn[i].session
        /\ pProcessed[i].cookieType = "secure-httponly"

\* the additive score as the specification states it; "with an expiration"
\* is read as JavaScript reads it (an expirationDate that is set and nonzero)
AdditiveScore(c) ==
      (IF c.secure THEN 2 ELSE 0)
    + (IF c.httpOnly THEN 2 ELSE 0)
    + (IF c.sameSite = "Strict" THEN 2 ELSE 0)
    + (IF c.sameSite = "Lax" THEN 1 ELSE 0)
    + (IF ~c.session /\ c.expirationDate # NoExpiration /\ c.expirationDate # <<0>>
       THEN 1 ELSE 0)

\* C9: the security score lies in [0, 8] and the tier depends only on the
\* score: >= 6 high, 3..5 medium, < 3 low; a cookie that is only secure and
\* httpOnly (score 4) is medium and a cookie with no signal (score 0) is low.
C9_ScoreRangeAndTier ==
    pOp = "processCookies" =>
        \A i \in 1..Len(pIn) :
            LET c == pIn[i]
                score == AdditiveScore(c)
                tier == pProcessed[i].securityLevel
            IN  /\ score \in 0..8
                /\ (tier = "high") <=> (score >= 6)
                /\ (tier = "medium") <=> (score >= 3 /\ score < 6)
                /\ (tier = "low") <=> (score < 3)
                /\ (c.secure /\ c.httpOnly /\ c.sameSite \notin {"Strict", "Lax"}
                        /\ (c.session \/ c.expirationDate = NoExpiration))
                    => (score = 4 /\ tier = "medium")
                /\ (~c.secure /\ ~c.httpOnly /\ c.sameSite \notin {"Strict", "Lax"}
                        /\ (c.session \/ c.expirationDate = NoExpiration))
                    => (score = 0 /\ tier = "low")

\* the two threshold scores are reached: 6 is high and 3 is medium
C9_Witness ==
    /\ pOp = "processCookies"
    /\ Len(pIn) = 1
    /\ \/ AdditiveScore(pIn[1]) = 6 /\ pProcessed[1].securityLevel = "high"
       \/ AdditiveScore(pIn[1]) = 3 /\ pProcessed[1].securityLevel = "medium"

(***************************************************************************)
(* De-duplication claims (SpecPure)                                        *)
(***************************************************************************)
SameTriple(a, b) == a.name = b.name /\ a.domain = b.domain /\ a.path = b.path

\* the list with exactly those cookies dropped that have an earlier cookie
\* with the same (name, domain, path)
RECURSIVE DedupByTriple(_, _)
DedupByTriple(cookies, i) ==
    IF i > Len(cookies) THEN <<>>
    ELSE IF \E j \in 1..(i - 1) : SameTriple(cookies[j], cookies[i])
         THEN DedupByTriple(cookies, i + 1)
         ELSE <<cookies[i]>> \o DedupByTriple(cookies, i + 1)

\* C10: removeDuplicateCookies drops a cookie iff an earlier cookie has the
\* same name, domain and path; first occurrences are kept in input order and
\* cookies whose triples differ are never merged.
C10_DedupByTriple ==
    pOp = "removeDuplicateCookies" => pUnique = DedupByTriple(pIn, 1)

(***************************************************************************)
(* Extraction and delivery claims (Spec)                                   *)
(***************************************************************************)
Live == {c \in Slots : call[c].pc \notin {"off", "idle"}}
Extracting == {c \in Live : IsExtraction(call[c].msg.action)}

Positions(trace, e) == {i \in 1..Len(trace) : trace[i] = e}
CountOf(trace, e) == Cardinality(Positions(trace, e))

ProbeFailed(c) == call[c].probe \in {"non2xx", "networkError", "abort"}

\* C1: when the health probe does not return a success status (non-2xx,
\* network error, abort at the timeout), the extraction call fails with the
\* 'server not running' error, issues no POST and never reads the cookie store.
C1_ProbeFailureStopsCall ==
    \A c \in Extracting :
        ProbeFailed(c) =>
            /\ call[c].pc = "done"
            /\ Len(call[c].responses) = 1
            /\ ~call[c].responses[1].success
            /\ Includes(call[c].responses[1].error,
                        "Server is not running - please start with \"npm start\"")
            /\ call[c].posted = <<>>
            /\ call[c].reads = <<>>
            /\ Positions(call[c].trace, "post") = {}
            /\ Positions(call[c].trace, "read") = {}

C1_Witness ==
    \E c \in Extracting :
        /\ call[c].msg.action = "extractCurrentDomain"
        /\ call[c].probe = "non2xx"
        /\ call[c].pc = "done"
        /\ ~call[c].responses[1].success

\* C2: a saveCookiesToFile call issues at most 3 POSTs, issues attempt k+1
\* only after attempt k failed, and issues none after a successful attempt.
C2_BoundedRetries ==
    \A c \in Extracting :
        LET tr == call[c].trace
            posts == Positions(tr, "post")
        IN  /\ Cardinality(posts) <= 3
            /\ Len(call[c].posted) = Cardinality(posts)
            /\ call[c].attempt = Cardinality(posts)
            /\ \A i \in posts, j \in posts :
                   i < j => \E f \in Positions(tr, "postFail") : i < f /\ f < j
            /\ \A s \in Positions(tr, "postOk"), j \in posts : j < s
            /\ Cardinality(posts) <= Len(call[c].errs) + 1

C2_Witness ==
    \E c \in Extracting :
        /\ CountOf(call[c].trace, "post") = 3
        /\ Len(call[c].errs) = 3
        /\ call[c].pc = "done"

\* C3: if attempts 1..k-1 fail and attempt k succeeds, the call succeeds with
\* exactly k POSTs and k-1 delays, one between each two consecutive attempts;
\* no delay precedes the first attempt and none follows the third failure.
C3_DelaysBetweenAttempts ==
    \A c \in Extracting :
        LET tr == call[c].trace
            posts == Positions(tr, "post")
            delays == Positions(tr, "delay")
        IN  /\ \A i \in posts, j \in posts :
                   (i < j /\ ~\E k \in posts : i < k /\ k < j)
                       => Cardinality({d \in delays : i < d /\ d < j}) = 1
            /\ \A d \in delays : \E i \in posts : i < d
            /\ call[c].delays = [i \in 1..Cardinality(delays) |-> 1000]
            /\ \A d \in delays : tr[d - 1] = "postFail"
            /\ \A d \in delays : d < Len(tr) => tr[d + 1] = "post"
            /\ Len(call[c].errs) = maxRetries =>
                   /\ Cardinality(delays) = maxRetries - 1
                   /\ SubSeq(tr, Len(tr) - 1, Len(tr)) = <<"postFail", "respond">>
            /\ Positions(tr, "postOk") # {} =>
                   /\ Cardinality(posts) = Len(call[c].errs) + 1
                   /\ Cardinality(delays) = Len(call[c].errs)
                   /\ Len(call[c].responses) = 1
                   /\ call[c].responses[1].success

C3_Witness ==
    \E c \in Extracting :
        /\ Len(call[c].errs) = 2
        /\ CountOf(call[c].trace, "postOk") = 1
        /\ CountOf(call[c].trace, "post") = 3
        /\ CountOf(call[c].trace, "delay") = 2

\* the user-facing message the final error's shape selects
FinalMessageFor(e) ==
    CASE e.name = "AbortError" -> TimeoutMessage
      [] e.name # "AbortError"
         /\ (Includes(e.message, "Failed to fetch") \/ Includes(e.message, "NetworkError"))
            -> ConnectMessage
      [] OTHER -> <<"Server error: ">> \o e.message

WrapPrefix(c) ==
    IF call[c].msg.action = "extractAllCookies"
    THEN "Failed to extract all cookies: " ELSE "Failed to extract domain cookies: "

\* C4: when all 3 attempts fail, exactly one error reaches the caller, and its
\* message is the timeout, connection-failure or generic server-error message
\* chosen from the third attempt's error alone.
C4_FinalErrorClassified ==
    \A c \in Extracting :
        Len(call[c].errs) = 3 =>
            /\ call[c].pc = "done"
            /\ Len(call[c].responses) = 1
            /\ ~call[c].responses[1].success
            /\ call[c].responses[1].error =
                   <<WrapPrefix(c)>> \o FinalMessageFor(call[c].errs[3])

\* a timeout on the third attempt after two failures of other kinds
C4_Witness ==
    \E c \in Extracting :
        /\ Len(call[c].errs) = 3
        /\ call[c].errs[3].name = "AbortError"
        /\ call[c].errs[1].name = "TypeError"
        /\ call[c].errs[2].name = "Error"
        /\ call[c].responses[1].error = <<WrapPrefix(c)>> \o TimeoutMessage

\* a response with a non-success status, or a parsed body whose success flag
\* is false
Refused(o) ==
    /\ o.fetch = "resolves"
    /\ ~o.ok \/ (o.json = "ok" /\ ~o.success)

\* the trace event that ended attempt k
EndOfAttempt(tr, k) ==
    LET ends == Positions(tr, "postOk") \cup Positions(tr, "postFail")
        p == CHOOSE i \in ends : Cardinality({j \in ends : j < i}) = k - 1
    IN  tr[p]

\* C5: an attempt answered with a non-success status, or with a body whose
\* success flag is false, is a failed attempt: it never ends the call as
\* delivered and is followed by the next attempt when fewer than 3 were made.
C5_RefusedAttemptFails ==
    \A c \in Extracting :
        \A k \in 1..Len(call[c].outcomes) :
            Refused(call[c].outcomes[k]) =>
                /\ EndOfAttempt(call[c].trace, k) = "postFail"
                /\ k = Len(call[c].outcomes) =>
                       \A i \in 1..Len(call[c].responses) : ~call[c].responses[i].success
                /\ k < 3 => \/ call[c].pc = "delayWait" /\ call[c].attempt = k
                            \/ Len(call[c].posted) >= k + 1
                /\ k = 3 => /\ call[c].pc = "done"
                            /\ Len(call[c].posted) = 3

\* a 2xx answer with success:false on attempt 1, and the second attempt posted
C5_Witness ==
    \E c \in Extracting :
        /\ Len(call[c].outcomes) >= 1
        /\ call[c].outcomes[1].ok
        /\ call[c].outcomes[1].json = "ok"
        /\ ~call[c].outcomes[1].success
        /\ Len(call[c].posted) = 2

ReadThrew(c) ==
    /\ Len(call[c].trace) >= 2
    /\ SubSeq(call[c].trace, Len(call[c].trace) - 1, Len(call[c].trace))
           = <<"read", "respond">>

\* C6: if the probe fails, the cookie API throws or all 3 attempts fail, the
\* response is {success: false, error: message} without cookie list, total or
\* timestamp, although the cookies had been read and classified when delivery
\* failed.
C6_NoPartialResults ==
    \A c \in Extracting :
        (ProbeFailed(c) \/ ReadThrew(c) \/ Len(call[c].errs) = 3) =>
            /\ call[c].pc = "done"
            /\ Len(call[c].responses) = 1
            /\ ~call[c].responses[1].success
            /\ call[c].responses[1].data = <<>>
            /\ call[c].responses[1].error # <<>>
            /\ call[c].responses[1].error[1] = WrapPrefix(c)
            /\ Len(call[c].errs) = 3 =>
                   /\ call[c].reads # <<>>
                   /\ Len(call[c].processed) = call[c].total
                   /\ call[c].envelope[1].cookies = call[c].processed

\* delivery failed three times after three cookies had been read and classified
C6_Witness ==
    \E c \in Extracting :
        /\ Len(call[c].errs) = 3
        /\ Len(call[c].processed) = 3
        /\ call[c].responses[1].data = <<>>

\* C7: every extraction call runs probe, cookie store read and first POST in
\* this order, and a later call does not skip its own probe or its own POST
\* because an earlier one succeeded.
C7_ProbeReadPostOrder ==
    \A c \in Extracting :
        LET tr == call[c].trace
            probes == Positions(tr, "probe")
            probeDone == Positions(tr, "probeDone")
            reads == Positions(tr, "read")
            posts == Positions(tr, "post")
        IN  /\ tr[1] = "probe"
            /\ Cardinality(probes) = 1
            /\ Cardinality(probeDone) <= 1
            /\ \A r \in reads : \E p \in probeDone : p < r
            /\ \A p \in posts : \E r \in reads : r < p
            /\ reads # {} => call[c].probe = "ok"
            /\ (call[c].pc = "done" /\ call[c].responses[1].success) =>
                   /\ probeDone # {} /\ reads # {} /\ posts # {}
                   /\ Positions(tr, "postOk") # {}

\* a second call in a slot whose first call already succeeded, itself delivered
C7_Witness ==
    \E c \in Extracting :
        /\ served[c] = 2
        /\ call[c].pc = "done"
        /\ call[c].responses[1].success
        /\ CountOf(call[c].trace, "probe") = 1
        /\ CountOf(call[c].trace, "post") >= 1

(***************************************************************************)
(* De-duplication and summary claims (SpecPure)                            *)
(***************************************************************************)
\* C11: removeDuplicateCookies is idempotent: applied to its own result it
\* returns that result unchanged.
C11_DedupIdempotent ==
    pOp = "removeDuplicateCookiesTwice" => pAgain = pUnique

\* a list of three cookies with the same key, reduced to one and kept at one
C11_Witness ==
    /\ pOp = "removeDuplicateCookiesTwice"
    /\ Len(pIn) = 3
    /\ Len(pUnique) = 1
    /\ pAgain = pUnique

InputDomains == {pIn[i].domain : i \in 1..Len(pIn)}

\* C13: the summary's domain list is the lexicographically sorted set of the
\* distinct domains of the input, without duplicate, and uniqueDomains is its
\* length.
C13_SortedDistinctDomains ==
    pOp = "generateSummary" =>
        LET d == pSummary.domains
        IN  /\ {d[i] : i \in 1..Len(d)} = InputDomains
            /\ \A i \in 1..(Len(d) - 1) : StringLess(d[i], d[i + 1])
            /\ \A i \in 1..Len(d), j \in 1..Len(d) : i # j => d[i] # d[j]
            /\ pSummary.uniqueDomains = Len(d)
            /\ Len(d) = Cardinality(InputDomains)

\* three cookies, a domain twice, the domains out of order in the input
C13_Witness ==
    /\ pOp = "generateSummary"
    /\ Len(pIn) = 3
    /\ pIn[1].domain = pIn[3].domain
    /\ StringLess(pIn[2].domain, pIn[1].domain)
    /\ pSummary.domains = <<pIn[2].domain, pIn[1].domain>>

Abs(x) == IF x < 0 THEN -x ELSE x

\* C14: for a non-empty list, averageCookieSize is the sum of the sizes divided
\* by the count rounded to the nearest integer, and averageCookieSize * count
\* differs from the sum by at most count - 1.
C14_MeanRounded ==
    (pOp = "generateSummary" /\ pIn # <<>>) =>
        LET n == Len(pProcessed)
            sum == SumSizes(pProcessed)
            avg == pSummary.averageCookieSize
        IN  /\ avg.kind = "number"
            /\ 2 * Abs(avg.value * n - sum) <= n
            /\ Abs(avg.value * n - sum) <= n - 1

\* three cookies whose sizes add up to 8: the mean 2.67 is reported as 3
C14_Witness ==
    /\ pOp = "generateSummary"
    /\ Len(pIn) = 3
    /\ SumSizes(pProcessed) = 8
    /\ pSummary.averageCookieSize = Num(3)

(***************************************************************************)
(* Domain-scoped extraction claims (Spec)                                  *)
(***************************************************************************)
DomainCalls ==
    {c \in Live : call[c].msg.action = "extractCurrentDomain"
                  /\ call[c].msg.url[1].valid}

HostOf(c) == call[c].msg.url[1].hostname

\* the number of dot-separated labels of a hostname, and the hostname with
\* its leftmost label dropped
LabelCount(host) == Cardinality({i \in 1..Len(host) : host[i] = "."}) + 1
DropLeftmostLabel(host) ==
    LET k == CHOOSE i \in 1..Len(host) :
                 host[i] = "." /\ \A j \in 1..(i - 1) : host[j] # "."
    IN  SubSeq(host, k + 1, Len(host))

QueriesFor(host) ==
    IF LabelCount(host) > 2
    THEN <<DomainFilter(host), DomainFilter(DropLeftmostLabel(host))>>
    ELSE <<DomainFilter(host)>>

\* the cookies of the exact hostname first, then those of the parent domain
MergedFor(host) ==
    getAll(DomainFilter(host)) \o
    (IF LabelCount(host) > 2 THEN getAll(DomainFilter(DropLeftmostLabel(host)))
     ELSE <<>>)

\* the part of C12 about the queries: the exact hostname is queried, and the
\* parent domain is queried iff the hostname has more than two labels
DomainQueries ==
    \A c \in DomainCalls :
        /\ Len(call[c].reads) <= Len(QueriesFor(HostOf(c)))
        /\ call[c].reads = SubSeq(QueriesFor(HostOf(c)), 1, Len(call[c].reads))
        /\ call[c].envelope # <<>> => call[c].reads = QueriesFor(HostOf(c))

\* C12: extractCurrentDomainCookies queries the exact hostname, and the
\* hostname without its leftmost label iff it has more than two labels; the
\* merged list (exact-hostname cookies first) is de-duplicated by
\* (name, domain, path) before classification, and the total is the
\* de-duplicated count.
C12_DomainQueriesAndDedup ==
    /\ DomainQueries
    /\ \A c \in DomainCalls :
           call[c].envelope # <<>> =>
               LET unique == DedupByTriple(MergedFor(HostOf(c)), 1)
               IN  /\ call[c].cookies = unique
                   /\ call[c].processed = processCookies(unique)
                   /\ call[c].envelope[1].cookies = call[c].processed
                   /\ call[c].total = Len(unique)
                   /\ \A i \in 1..Len(call[c].responses) :
                          call[c].responses[i].success =>
                              call[c].responses[i].data[1].total = Len(unique)

(***************************************************************************)
(* Overlapping extraction calls (SpecConc)                                 *)
(***************************************************************************)
\* what one call does and answers is its own: its own probe, at most 3 POSTs
\* of its own envelope, and a result decided by its own probe and attempts
OwnWork(c) ==
    LET r == call[c]
        posts == Positions(r.trace, "post")
    IN  /\ r.trace[1] = "probe"
        /\ CountOf(r.trace, "probe") = 1
        /\ Cardinality(posts) <= 3
        /\ Len(r.posted) = Cardinality(posts)
        /\ Len(r.fetches) = 1 + Cardinality(posts)
        /\ \A i \in 1..Len(r.posted) :
               /\ r.posted[i] = JSONStringify(r.envelope[1])
               /\ r.posted[i].cookies = r.processed
               /\ r.posted[i].metadata.totalCookies = r.total
        /\ r.pc = "done" =>
               (r.responses[1].success <=>
                    /\ r.probe = "ok"
                    /\ r.outcomes # <<>>
                    /\ r.outcomes[Len(r.outcomes)] = Delivered)

\* whatever the other call is doing, a call's next event can happen (the
\* guard of a read's return is the same for both outcomes; it is evaluated
\* for the outcome that builds no envelope)
NotBlocked(c) ==
    LET r == call[c]
    IN  /\ (r.pc \in {"idle", "done"} /\ Received < MaxCalls) =>
               \A m \in ConcMessages : ENABLED Receive(c, m)
        /\ r.pc = "probeWait" => \A o \in ProbeOutcomes : ENABLED ProbeReturn(c, o)
        /\ r.pc = "readWait" =>
               \A ts \in ClockReads : ENABLED ReadReturn(c, "throws", ts[1], ts[2])
        /\ r.pc = "parentWait" =>
               \A ts \in ClockReads : ENABLED ParentReturn(c, "throws", ts[1], ts[2])
        /\ r.pc = "postWait" =>
               \A o \in ConcOutcomes : ENABLED PostReturn(c, FetchPart(o))
        /\ r.pc = "bodyWait" =>
               \A o \in ConcOutcomes, t \in Times :
                   BodyRead(FetchPart(o)) => ENABLED BodyReturn(c, BodyPart(o), t)
        /\ r.pc = "delayWait" => ENABLED DelayElapsed(c)

\* an event of one call leaves the other call as it is
OneCallPerStep ==
    \A c \in Slots :
        call'[c] # call[c] => \A d \in Slots \ {c} : call'[d] = call[d]

\* C15: two overlapping extraction calls run independently, without mutual
\* exclusion: each does its own probe and has its own budget of 3 POSTs,
\* neither blocks or changes the outcome of the other, and each call that
\* reaches delivery posts its own envelope.
C15_IndependentCalls ==
    /\ [](\A c \in Slots : NotBlocked(c) /\ (c \in Extracting => OwnWork(c)))
    /\ [][OneCallPerStep]_vars

\* both calls are in their retry loops at the same time, after different
\* numbers of attempts
C15_Witness ==
    /\ call[1].pc = "delayWait"
    /\ call[1].attempt = 1
    /\ call[2].pc = "postWait"
    /\ call[2].attempt = 3
    /\ call[1].msg # call[2].msg

(***************************************************************************)
(* Timeouts                                                                *)
(***************************************************************************)
Aborted(r) == {i \in 1..Len(r.fetches) : r.fetches[i].state = "aborted"}

\* C16 as stated: a request aborted at its deadline ends alone and the
\* extraction operation continues; so no extraction call is over with the
\* abort of its last request.
C16_AbortNeverEndsExtraction ==
    \A c \in Extracting :
        LET r == call[c]
        IN  (r.fetches # <<>> /\ Len(r.fetches) \in Aborted(r)) => r.pc # "done"

\* C16, amended: every request has its own deadline (3000 ms for the probe,
\* 10000 ms for a POST attempt) and an abort ends that request only; after an
\* aborted POST attempt 1 or 2 the call waits and posts again, while an
\* aborted probe ends the call with the 'server is not running' error and an
\* aborted third attempt ends it with the 'server timeout' error.
C16_AbortEndsOnlyItsRequest ==
    \A c \in Extracting :
        LET r == call[c]
            n == Len(r.fetches)
        IN  /\ n >= 1
            /\ r.fetches[1].path = "/api/status"
            /\ r.fetches[1].timeout = 3000
            /\ \A i \in 2..n :
                   /\ r.fetches[i].path = "/api/cookies"
                   /\ r.fetches[i].timeout = 10000
            /\ \A i \in 1..(n - 1) : r.fetches[i].state # "pending"
            /\ \A i \in Aborted(r) :
                   IF i = 1
                   THEN /\ n = 1
                        /\ r.pc = "done"
                        /\ r.responses = <<FailResponse(
                               <<WrapPrefix(c)>> \o ServerNotRunning.message)>>
                   ELSE IF i < 3 + 1
                   THEN /\ r.errs[i - 1].name = "AbortError"
                        /\ i = n => /\ r.pc = "delayWait"
                                    /\ r.responses = <<>>
                                    /\ r.delays[i - 1] = 1000
                        /\ i < n => r.posted[i] = r.posted[i - 1]
                   ELSE /\ i = n
                        /\ r.pc = "done"
                        /\ r.responses = <<FailResponse(
                               <<WrapPrefix(c)>> \o TimeoutMessage)>>

\* the first attempt was aborted at its deadline and the call went on to
\* deliver with a later attempt
C16_Witness ==
    \E c \in Extracting :
        /\ 2 \in Aborted(call[c])
        /\ Len(call[c].fetches) = 3
        /\ call[c].pc = "done"
        /\ call[c].responses[1].success

(***************************************************************************)
(* The message boundary                                                    *)
(***************************************************************************)
\* the case labels of handleMessage's switch
Recognized ==
    {"extractAllCookies", "extractCurrentDomain", "getCookieStats", "openInTab"}

\* C17: a message whose action is not one of the recognized triggers is
\* answered with {success: false, error: 'Unknown action'} and causes no
\* health probe, no cookie store read and no POST.
C17_UnknownAction ==
    \A c \in Live :
        call[c].msg.action \notin Recognized =>
            /\ call[c].pc = "done"
            /\ call[c].responses = <<FailResponse(<<"Unknown action">>)>>
            /\ call[c].trace = <<"respond">>
            /\ call[c].fetches = <<>>
            /\ call[c].reads = <<>>
            /\ call[c].posted = <<>>
            /\ call[c].probe = ""

\* an action that differs from a trigger in its case only, sent after an
\* earlier message had been handled
C17_Witness ==
    \E c \in Live :
        /\ call[c].msg.action = "ExtractAllCookies"
        /\ served[c] = 2
        /\ call[c].pc = "done"
        /\ call[c].responses[1].error = <<"Unknown action">>

\* the operation a message triggered has succeeded
Succeeded(r) ==
    CASE IsExtraction(r.msg.action) ->
            /\ r.probe = "ok"
            /\ r.outcomes # <<>>
            /\ attemptError(r.outcomes[Len(r.outcomes)]) = <<>>
      [] r.msg.action = "getCookieStats" -> r.responses[1].data # <<>>
      [] r.msg.action = "openInTab" -> TRUE
      [] OTHER -> FALSE

\* the invocation is waiting for something that can happen
CanGoOn(c) ==
    LET r == call[c]
    IN  CASE r.pc = "probeWait" -> \A o \in ProbeOutcomes : ENABLED ProbeReturn(c, o)
          [] r.pc = "readWait" ->
                \A ts \in ClockReads : ENABLED ReadReturn(c, "throws", ts[1], ts[2])
          [] r.pc = "parentWait" ->
                \A ts \in ClockReads : ENABLED ParentReturn(c, "throws", ts[1], ts[2])
          [] r.pc = "statsWait" -> \A o \in ReadOutcomes : ENABLED StatsReturn(c, o)
          [] r.pc = "postWait" -> \A f \in FetchOutcomes : ENABLED PostReturn(c, f)
          [] r.pc = "bodyWait" ->
                \A b \in BodyOutcomes, t \in Times : ENABLED BodyReturn(c, b, t)
          [] r.pc = "delayWait" -> ENABLED DelayElapsed(c)
          [] OTHER -> FALSE

\* C18: every failure is caught at the message boundary: for every message
\* and every outcome of the operation it triggers, handleMessage sends exactly
\* one response, {success: true, ...} on success and {success: false, error}
\* with one message on failure, and the listener can handle later messages.
C18_OneResponsePerMessage ==
    \A c \in Live :
        LET r == call[c]
        IN  /\ Len(r.responses) <= 1
            /\ CountOf(r.trace, "respond") = Len(r.responses)
            /\ r.pc # "done" => r.responses = <<>> /\ CanGoOn(c)
            /\ r.pc = "done" =>
                   /\ Len(r.responses) = 1
                   /\ r.trace[Len(r.trace)] = "respond"
                   /\ r.responses[1].success <=> Succeeded(r)
                   /\ r.responses[1].success => r.responses[1].error = <<>>
                   /\ ~r.responses[1].success =>
                          /\ r.responses[1].data = <<>>
                          /\ r.responses[1].error # <<>>
                   /\ Received < MaxCalls =>
                          \A m \in Messages : ENABLED Receive(c, m)

\* the listener has answered a failed extraction and then a later message
C18_Witness ==
    \E c \in Live :
        /\ served[c] = 2
        /\ call[c].msg.action = "extractCurrentDomain"
        /\ ~call[c].msg.url[1].valid
        /\ call[c].pc = "done"
        /\ ~call[c].responses[1].success

(***************************************************************************)
(* What a retry repeats                                                    *)
(***************************************************************************)
\* the number of cookie store reads of a call that reached delivery
ReadsOf(c) ==
    IF call[c].msg.action = "extractAllCookies" THEN 1
    ELSE Len(QueriesFor(HostOf(c)))

\* C19: retries apply only to the delivery step: within one extraction call
\* the health probe is issued exactly once, the cookie store is read once
\* (twice in domain mode with a parent domain) and never again during
\* delivery retries, and every POST attempt of the call carries the same
\* envelope with the same filename.
C19_OnlyDeliveryRetried ==
    \A c \in Extracting :
        LET r == call[c]
            posts == Positions(r.trace, "post")
            before == Positions(r.trace, "probe") \cup Positions(r.trace, "read")
        IN  /\ CountOf(r.trace, "probe") = 1
            /\ Cardinality({i \in 1..Len(r.fetches) :
                               r.fetches[i].path = "/api/status"}) = 1
            /\ CountOf(r.trace, "read") = Len(r.reads)
            /\ Len(r.posted) = Cardinality(posts)
            /\ posts # {} =>
                   /\ Len(r.reads) = ReadsOf(c)
                   /\ \A i \in before, j \in posts : i < j
            /\ \A i \in 1..Len(r.posted) :
                   /\ r.posted[i] = r.posted[1]
                   /\ r.posted[i].filename = r.posted[1].filename
                   /\ r.posted[i].metadata.extractedAt = r.envelope[1].metadata.extractedAt
                   /\ r.posted[i].cookies = r.processed

\* three attempts in domain mode with a parent domain: two reads, one probe
C19_Witness ==
    \E c \in Extracting :
        /\ call[c].msg.action = "extractCurrentDomain"
        /\ Len(call[c].posted) = 3
        /\ Len(call[c].reads) = 2
        /\ call[c].pc = "done"

(***************************************************************************)
(* Malformed input                                                         *)
(***************************************************************************)
BadUrlCalls ==
    {c \in Live : call[c].msg.action = "extractCurrentDomain"
                  /\ ~call[c].msg.url[1].valid}

\* C20: extract-current-domain called with an unparseable URL fails with an
\* error response ({success: false}), and in that call the cookie store is
\* never read and no POST is issued, whatever the result of the health probe.
C20_BadUrlFails ==
    \A c \in BadUrlCalls :
        LET r == call[c]
        IN  /\ r.reads = <<>>
            /\ r.posted = <<>>
            /\ Positions(r.trace, "read") = {}
            /\ Positions(r.trace, "post") = {}
            /\ Len(r.fetches) = 1
            /\ r.pc \in {"probeWait", "done"}
            /\ r.pc = "done" <=> r.probe # ""
            /\ r.pc = "done" =>
                   r.responses = <<FailResponse(
                       <<"Failed to extract domain cookies: ">> \o
                       (IF r.probe = "ok" THEN InvalidUrl.message
                        ELSE ServerNotRunning.message))>>

\* the server was available and the URL did not parse
C20_Witness ==
    \E c \in BadUrlCalls :
        /\ call[c].probe = "ok"
        /\ call[c].pc = "done"
        /\ ~call[c].responses[1].success

(***************************************************************************)
(* Statistics                                                              *)
(***************************************************************************)
StatsCalls == {c \in Live : call[c].msg.action = "getCookieStats"}

\* what a get-statistics call has done: one unfiltered read, no request to
\* the server, and an answer computed from the whole cookie store
StatsReadsOnly(c) ==
    LET r == call[c]
    IN  /\ r.reads = <<AllFilter>>
        /\ r.fetches = <<>>
        /\ r.posted = <<>>
        /\ r.probe = ""
        /\ \A i \in 1..Len(r.trace) : r.trace[i] \in {"read", "respond"}
        /\ r.pc \in {"statsWait", "done"}
        /\ r.pc = "statsWait" => ENABLED StatsReturn(c, "ok")
        /\ r.pc = "done" =>
               \/ r.responses = <<FailResponse(CookieApiError.message)>>
               \/ /\ r.responses = <<SuccessResponse(cookieStatistics(store))>>
                  /\ r.responses[1].data[1].total = Len(store)

\* a step of a get-statistics call leaves the server's files as they are
StatsLeavesFiles ==
    \A c \in Slots :
        (call'[c] # call[c] /\ call'[c].msg.action = "getCookieStats")
            => files' = files

\* C21: get-statistics reads the live cookie store without any filter and
\* performs no health probe and no POST: it succeeds whether or not the
\* server is reachable, and it leaves the set of files stored on the server
\* unchanged.
C21_StatsReadOnly ==
    /\ [](\A c \in StatsCalls : StatsReadsOnly(c))
    /\ [][StatsLeavesFiles]_vars

\* statistics answered after an extraction of the same listener had put a
\* file on the server
C21_Witness ==
    \E c \in StatsCalls :
        /\ call[c].pc = "done"
        /\ call[c].responses[1].success
        /\ call[c].responses[1].data[1].total = 3
        /\ files # {}

(***************************************************************************)
(* The extractor's cache                                                   *)
(***************************************************************************)
\* C22: the extraction component's in-memory cache is never populated or
\* consulted: in every reachable state, after any sequence of messages and
\* extraction calls, cookieCache is empty, and no operation's result depends
\* on it.
C22_CacheUnused ==
    /\ [](cookieCache = NewMap /\ DOMAIN cookieCache = {})
    /\ [][cookieCache' = cookieCache]_vars

\* the cache is empty after a statistics call that followed a successful
\* extraction
C22_Witness ==
    \E c \in StatsCalls :
        /\ served[c] = 2
        /\ call[c].pc = "done"
        /\ call[c].responses[1].success
        /\ files # {}
        /\ DOMAIN cookieCache = {}

(***************************************************************************)
(* Extraction of nothing                                                   *)
(***************************************************************************)
\* the cookies the call's queries find in the store
FoundBy(c) ==
    IF call[c].msg.action = "extractAllCookies" THEN getAll(AllFilter)
    ELSE MergedFor(HostOf(c))

\* the extraction calls that find no cookie, after a successful probe
EmptyCalls ==
    {c \in Extracting :
        /\ call[c].probe = "ok"
        /\ call[c].msg.action = "extractCurrentDomain" => call[c].msg.url[1].valid
        /\ FoundBy(c) = <<>>}

\* C23: an extraction whose cookie list is empty and whose probe succeeds does
\* not fail locally: it still builds an envelope with totalCookies 0, an
\* empty cookie list and an empty domain list, issues the POST, and on a
\* successful delivery returns total 0 to the caller.
C23_EmptyExtractionDelivered ==
    \A c \in EmptyCalls :
        LET r == call[c]
        IN  /\ r.pc \in {"readWait", "parentWait", "postWait", "bodyWait",
                        "delayWait", "done"}
            /\ (r.pc = "done" /\ r.posted = <<>>) =>
                   r.responses = <<FailResponse(
                       <<WrapPrefix(c)>> \o CookieApiError.message)>>
            /\ r.posted # <<>> =>
                   /\ r.posted[1].metadata.totalCookies = 0
                   /\ r.posted[1].cookies = <<>>
                   /\ r.posted[1].summary.totalCookies = 0
                   /\ r.posted[1].summary.uniqueDomains = 0
                   /\ r.posted[1].summary.domains = <<>>
                   /\ r.envelope[1].summary.largestCookie = NegInfinity
                   /\ r.envelope[1].summary.averageCookieSize = NaN
                   /\ r.posted[1].summary.largestCookie = Null
                   /\ r.posted[1].summary.averageCookieSize = Null
                   /\ r.total = 0
            /\ (r.pc = "done" /\ r.outcomes # <<>>
                    /\ r.outcomes[Len(r.outcomes)] = Delivered) =>
                   /\ r.responses[1].success
                   /\ r.responses[1].data[1].total = 0
                   /\ r.responses[1].data[1].cookies = <<>>

\* extract-all on an empty cookie store, delivered at the first attempt
C23_Witness ==
    \E c \in EmptyCalls :
        /\ call[c].msg.action = "extractAllCookies"
        /\ store = EmptyStore
        /\ call[c].pc = "done"
        /\ Len(call[c].posted) = 1
        /\ call[c].responses[1].success
        /\ call[c].responses[1].data[1].total = 0

(***************************************************************************)
(* The extractor tab (SpecTabs)                                            *)
(***************************************************************************)
\* C24: openExtractorInTab never creates a second extractor tab: if a tab
\* with the extractor URL is already open it focuses that tab and creates
\* none, so after any sequence of triggers, including triggers whose tab
\* queries overlap, at most one extractor tab opened by the extension exists.
C24_AtMostOneExtractorTab ==
    /\ tabs <= 1
    /\ Cardinality({k \in 1..Len(tabTasks) : tabTasks[k].did = "create"}) <= 1

\* the part of C24 that holds: an invocation acts on what its own query
\* found, focusing when it found a tab and creating when it found none
ActsOnQueryResult ==
    \A k \in 1..Len(tabTasks) :
        /\ tabTasks[k].did = "focus" => tabTasks[k].found > 0
        /\ tabTasks[k].did = "create" => tabTasks[k].found = 0
        /\ tabTasks[k].pc = "done" <=> tabTasks[k].did # ""

(***************************************************************************)
(* The popup's log (SpecPopup)                                             *)
(***************************************************************************)
\* C25: the popup log is limited to 50 entries: after any sequence of log and
\* clearLogs calls, the log output holds at most 50 log-entry elements.
C25_LogLimit == ChildrenLength(logOutput) <= 50

\* what does hold: the log never holds more than 51 entries, and more than
\* 50 only when a text node had been the first child
LogNeverPastLimitPlusOne == ChildrenLength(logOutput) <= logLimit + 1

(***************************************************************************)
(* The popup's buttons (SpecPopup)                                         *)
(***************************************************************************)
\* while, and only while, an extraction handler runs, the indicator is shown
\* and the buttons are disabled; no second handler starts meanwhile
ButtonsFollowExtraction ==
    /\ Len(popup.tasks) <= 1
    /\ popup.loading <=> popup.tasks # <<>>
    /\ popup.disabled <=> popup.tasks # <<>>
    /\ popup.disabled => ~ENABLED ClickExtractAll /\ ~ENABLED ClickExtractCurrent

\* C26: in the popup, the buttons are disabled and the loading indicator is
\* shown from the start of an extraction until it finishes, so one popup
\* never has two extractions in flight; and whenever the background answers,
\* with success, with an error response or with no usable response, the
\* buttons are eventually re-enabled and the loading indicator hidden.
C26_ButtonsDisabledWhileExtracting ==
    /\ []ButtonsFollowExtraction
    /\ (popup.loading ~> (~popup.loading /\ ~popup.disabled))

\* extract-all was answered with success and the handler now waits for the
\* statistics, the buttons still disabled
C26_Witness ==
    /\ Len(popup.tasks) = 1
    /\ popup.tasks[1].kind = "all"
    /\ popup.tasks[1].pc = "awaitStats"
    /\ popup.loading
    /\ popup.disabled

====
